---- MODULE Spec2Model ----
(***************************************************************************)
(* A model of the ABC Gaming loyalty-points dashboard: data_processor.py,  *)
(* utils.py, loyalty_calculator.py and the Streamlit pages of app.py.      *)
(*                                                                         *)
(* Numbers.  pandas computes in float64.  The model computes the same      *)
(* expressions in exact rational arithmetic ([n, d], d > 0), with the two  *)
(* IEEE results of a division by zero kept apart: 0/0 is NaN ([0, 0]) and  *)
(* x/0, x > 0, is +inf ([1, 0]).  Amounts of money and game counts are     *)
(* naturals.  Equality "within floating-point tolerance" is equality of    *)
(* rationals here.                                                         *)
(*                                                                         *)
(* Frames.  A DataFrame of activity data is [columns, rows]: the set of    *)
(* column labels and the sequence of rows.  A row has the six fields of    *)
(* the expected format; the field of a column the frame lacks is never     *)
(* read.  player_id is a natural (the number in "P001"), 0 standing for a  *)
(* null cell.  A date cell is a string until pd.to_datetime has parsed it  *)
(* and a timestamp <<y, m, d>> after.  A numeric cell is a number, a       *)
(* non-numeric string or an empty (NaN) cell.                              *)
(***************************************************************************)
EXTENDS Integers, Sequences, FiniteSets, TLC

VARIABLES
    data,             \* st.session_state.data: None or the validated frame
    loyalty_results,  \* st.session_state.loyalty_results: None or the scored frame
    bonus_allocation, \* st.session_state.bonus_allocation: unset or the allocation
    page,             \* the page that ran last
    shown,            \* what that run computed and displayed
    call,             \* a library function called on its own: its name and arguments
    ret               \* what that call returned

vars == <<data, loyalty_results, bonus_allocation, page, shown, call, ret>>
session == <<data, loyalty_results, bonus_allocation, page, shown>>

(***************************************************************************)
(* Python's None / an unset attribute, and a set value.                    *)
(***************************************************************************)
None == <<>>
Some(x) == <<x>>
IsNone(o) == o = <<>>
Get(o) == o[1]

(***************************************************************************)
(* Bounds of the model.                                                    *)
(***************************************************************************)
\* players of the largest generated upload (one more than the top-50 cut)
MaxPlayers == 51
\* rows of a frame handed to a library function called on its own
MaxRows == 2
\* players of a scored frame handed to the ranking
MaxRanked == 3
\* The records of a frame that is scored by slot.
MaxSlotRows == 2

(***************************************************************************)
(* Rational arithmetic standing for float64.                               *)
(***************************************************************************)
RECURSIVE Gcd(_, _)
Gcd(a, b) == IF b = 0 THEN a ELSE Gcd(b, a % b)

Abs(x) == IF x < 0 THEN -x ELSE x

NaN == [n |-> 0, d |-> 0]
Inf == [n |-> 1, d |-> 0]
IsNaN(r) == r.d = 0 /\ r.n = 0
IsFinite(r) == r.d > 0

Norm(n, d) ==
    IF d = 0 THEN (IF n = 0 THEN NaN ELSE Inf)
    ELSE LET g == Gcd(Abs(n), Abs(d))
             s == IF d < 0 THEN -1 ELSE 1
         IN  [n |-> s * (n \div g), d |-> s * (d \div g)]

R(n) == [n |-> n, d |-> 1]
Frac(n, d) == Norm(n, d)

\* The sum over the least common denominator, so that products stay small.
RAdd(a, b) ==
    IF IsNaN(a) \/ IsNaN(b) THEN NaN
    ELSE IF ~IsFinite(a) \/ ~IsFinite(b) THEN Inf
    ELSE LET g == Gcd(a.d, b.d)
         IN  Norm(a.n * (b.d \div g) + b.n * (a.d \div g), (a.d \div g) * b.d)

\* Operands are reduced crosswise first so that products stay small.
RMul(a, b) ==
    IF IsNaN(a) \/ IsNaN(b) THEN NaN
    ELSE IF ~IsFinite(a) \/ ~IsFinite(b)
         THEN (IF a.n = 0 \/ b.n = 0 THEN NaN ELSE Inf)
    ELSE LET x == Norm(a.n, b.d)
             y == Norm(b.n, a.d)
         IN  Norm(x.n * y.n, x.d * y.d)

\* Non-negative operands only (all the program divides).
RDiv(a, b) ==
    IF IsNaN(a) \/ IsNaN(b) THEN NaN
    ELSE IF ~IsFinite(b) THEN (IF IsFinite(a) THEN R(0) ELSE NaN)
    ELSE IF ~IsFinite(a) THEN Inf
    ELSE IF b.n = 0 THEN (IF a.n = 0 THEN NaN ELSE Inf)
    ELSE RMul(a, [n |-> b.d, d |-> b.n])

\* a < b in float comparison: false when either side is NaN.
RLess(a, b) ==
    IF IsNaN(a) \/ IsNaN(b) THEN FALSE
    ELSE IF ~IsFinite(b) THEN IsFinite(a)
    ELSE IF ~IsFinite(a) THEN FALSE
    ELSE a.n * b.d < b.n * a.d

\* a == b in float comparison: NaN equals nothing.
REq(a, b) == ~IsNaN(a) /\ ~IsNaN(b) /\ a = b

(***************************************************************************)
(* float64 itself, where the rounding of an operation decides a property.  *)
(* A natural number too large for one integer is the sequence of its limbs *)
(* below 2^15, the lowest first, without leading zero limbs.  A float64    *)
(* value (finite, not negative) is [m, e]: m * 2^e with m odd, or zero.    *)
(***************************************************************************)
Limb == 2 ^ 15

\* The limbs of an integer 0 <= k < 2^31.
Big(k) ==
    IF k = 0 THEN <<>>
    ELSE IF k < Limb THEN <<k>>
    ELSE IF k < Limb * Limb THEN <<k % Limb, k \div Limb>>
    ELSE <<k % Limb, (k \div Limb) % Limb, k \div (Limb * Limb)>>

LimbAt(a, i) == IF i \in 1..Len(a) THEN a[i] ELSE 0

BTrim(a) ==
    IF \A i \in 1..Len(a) : a[i] = 0 THEN <<>>
    ELSE SubSeq(a, 1, CHOOSE i \in 1..Len(a) :
                        a[i] # 0 /\ \A j \in (i + 1)..Len(a) : a[j] = 0)

RECURSIVE BAddFrom(_, _, _, _)
BAddFrom(a, b, i, carry) ==
    IF i > Len(a) /\ i > Len(b) THEN Big(carry)
    ELSE <<(LimbAt(a, i) + LimbAt(b, i) + carry) % Limb>>
         \o BAddFrom(a, b, i + 1, (LimbAt(a, i) + LimbAt(b, i) + carry) \div Limb)

BAdd(a, b) == BAddFrom(a, b, 1, 0)

\* a * k for 0 <= k <= 2^15.
RECURSIVE BScaleFrom(_, _, _, _)
BScaleFrom(a, k, i, carry) ==
    IF i > Len(a) THEN Big(carry)
    ELSE <<(a[i] * k + carry) % Limb>> \o BScaleFrom(a, k, i + 1, (a[i] * k + carry) \div Limb)

BScale(a, k) == IF k = 0 THEN <<>> ELSE BScaleFrom(a, k, 1, 0)

LimbShift(a, n) == IF a = <<>> THEN <<>> ELSE [i \in 1..n |-> 0] \o a

RECURSIVE BMulFrom(_, _, _)
BMulFrom(a, b, i) ==
    IF i > Len(b) THEN <<>>
    ELSE BAdd(LimbShift(BScale(a, b[i]), i - 1), BMulFrom(a, b, i + 1))

BMul(a, b) == BMulFrom(a, b, 1)

\* a * 2^s and the integer part of a / 2^s.
BShl(a, s) == LimbShift(BScale(a, 2 ^ (s % 15)), s \div 15)

BShr(a, s) ==
    IF Len(a) <= s \div 15 THEN <<>>
    ELSE BTrim([i \in 1..(Len(a) - (s \div 15)) |->
                  (a[(s \div 15) + i] \div (2 ^ (s % 15)))
                  + (LimbAt(a, (s \div 15) + i + 1) % (2 ^ (s % 15))) * (2 ^ (15 - (s % 15)))])

\* Bit i of a (bit 0 the lowest), and whether the s lowest bits are all zero.
BBit(a, i) == (LimbAt(a, (i \div 15) + 1) \div (2 ^ (i % 15))) % 2

BLowBitsZero(a, s) ==
    /\ \A i \in 1..(s \div 15) : LimbAt(a, i) = 0
    /\ LimbAt(a, (s \div 15) + 1) % (2 ^ (s % 15)) = 0

BitLen(a) ==
    IF a = <<>> THEN 0
    ELSE 15 * (Len(a) - 1) + CHOOSE n \in 1..15 : 2 ^ (n - 1) <= a[Len(a)] /\ a[Len(a)] < 2 ^ n

BLess(a, b) ==
    \/ Len(a) < Len(b)
    \/ /\ Len(a) = Len(b)
       /\ \E i \in 1..Len(a) : a[i] < b[i] /\ \A j \in (i + 1)..Len(a) : a[j] = b[j]

\* The remainder of (the limbs i.. of a) / d, and the quotient a / d, for 0 < d < 2^15.
RECURSIVE BRemFrom(_, _, _)
BRemFrom(a, d, i) ==
    IF i > Len(a) THEN 0 ELSE (BRemFrom(a, d, i + 1) * Limb + a[i]) % d

BDiv(a, d) == BTrim([i \in 1..Len(a) |-> (BRemFrom(a, d, i + 1) * Limb + a[i]) \div d])

\* m * 2^e with the trailing zero bits of m moved into e.
Dyadic(m, e) ==
    IF m = <<>> THEN [m |-> <<>>, e |-> 0]
    ELSE LET tz == CHOOSE t \in 0..BitLen(m) : BLowBitsZero(m, t) /\ BBit(m, t) = 1
         IN  [m |-> BShr(m, tz), e |-> e + tz]

\* Round to nearest, ties to even, to the 53 bits of a float64 significand:
\* the value m * 2^e, plus something below 2^e when sticky.
Round53(m, e, sticky) ==
    IF BitLen(m) <= 53 THEN Dyadic(m, e)
    ELSE LET d == BitLen(m) - 53
             q == BShr(m, d)
             up == /\ BBit(m, d - 1) = 1
                   /\ (sticky \/ ~BLowBitsZero(m, d - 1) \/ BBit(m, d) = 1)
         IN  Dyadic(IF up THEN BAdd(q, <<1>>) ELSE q, e + d)

\* The float64 of an integer, and of the decimal literal num / den.
FromInt(k) == Dyadic(Big(k), 0)

FromDecimal(num, den) ==
    Round53(BDiv(BShl(Big(num), 75), den), -75, BRemFrom(BShl(Big(num), 75), den, 1) # 0)

\* x + y and x * y without rounding, and as float64 computes them.
DAdd(x, y) ==
    LET e == IF x.e < y.e THEN x.e ELSE y.e
    IN  Dyadic(BAdd(BShl(x.m, x.e - e), BShl(y.m, y.e - e)), e)

DLess(x, y) ==
    LET e == IF x.e < y.e THEN x.e ELSE y.e
    IN  BLess(BShl(x.m, x.e - e), BShl(y.m, y.e - e))

FAdd(x, y) ==
    LET e == IF x.e < y.e THEN x.e ELSE y.e
    IN  Round53(BAdd(BShl(x.m, x.e - e), BShl(y.m, y.e - e)), e, FALSE)

FMul(x, y) == Round53(BMul(x.m, y.m), x.e + y.e, FALSE)

(***************************************************************************)
(* Sequences.                                                              *)
(***************************************************************************)
Range(s) == {s[i] : i \in 1..Len(s)}

Indices(s) == [i \in 1..Len(s) |-> i]
At(s, idx) == [r \in 1..Len(idx) |-> s[idx[r]]]

Smallest(a, b) == IF a <= b THEN a ELSE b

\* Series.unique(): the distinct values in order of first appearance.
Unique(s) ==
    LET First(i) == \A j \in 1..(i - 1) : s[j] # s[i]
    IN  At(s, SelectSeq(Indices(s), First))

\* A stable sort: s[i] comes before s[j] when it is Before it, or when neither is
\* Before the other and i < j.
StableSort(s, Before(_, _)) ==
    LET Lt(i, j) == \/ Before(s[i], s[j])
                    \/ ~Before(s[j], s[i]) /\ i < j
    IN  At(s, SortSeq(Indices(s), Lt))

\* The sum of s[lo..hi], by halves.
RECURSIVE SumIntRange(_, _, _)
SumIntRange(s, lo, hi) ==
    IF lo > hi THEN 0
    ELSE IF lo = hi THEN s[lo]
    ELSE SumIntRange(s, lo, (lo + hi) \div 2) + SumIntRange(s, (lo + hi) \div 2 + 1, hi)

SumInt(s) == SumIntRange(s, 1, Len(s))

RECURSIVE SumRatRange(_, _, _)
SumRatRange(s, lo, hi) ==
    IF lo > hi THEN R(0)
    ELSE IF lo = hi THEN s[lo]
    ELSE RAdd(SumRatRange(s, lo, (lo + hi) \div 2), SumRatRange(s, (lo + hi) \div 2 + 1, hi))

\* Series.sum() of floats: skipna=True leaves NaN cells out.
SumRat(s) ==
    LET NotNaN(x) == ~IsNaN(x)
    IN  SumRatRange(SelectSeq(s, NotNaN), 1, Len(SelectSeq(s, NotNaN)))

(***************************************************************************)
(* Cells.                                                                  *)
(***************************************************************************)
Num(v) == [k |-> "num", v |-> v]
Str == [k |-> "str", v |-> 0]
Empty == [k |-> "nan", v |-> 0]

RawDate(s) == [parsed |-> FALSE, s |-> s, ymd |-> <<0, 0, 0>>]
Timestamp(ymd) == [parsed |-> TRUE, s |-> "", ymd |-> ymd]

\* The date strings of the uploads, and what pd.to_datetime makes of each
\* (<<0, 0, 0>>: the parser raises).
ParseYmd(s) ==
    CASE s = "2023-10-02" -> <<2023, 10, 2>>
      [] s = "2023-10-16" -> <<2023, 10, 16>>
      [] s = "2023-11-01" -> <<2023, 11, 1>>
      [] OTHER -> <<0, 0, 0>>

CanParse(c) == c.parsed \/ ParseYmd(c.s) # <<0, 0, 0>>
ToDatetime(c) == IF c.parsed THEN c ELSE Timestamp(ParseYmd(c.s))

\* Timestamp.strftime('%Y-%m-%d') and strftime('%Y-%m').
StrftimeYmd(c) ==
    CASE c.ymd = <<2023, 10, 2>> -> "2023-10-02"
      [] c.ymd = <<2023, 10, 16>> -> "2023-10-16"
      [] c.ymd = <<2023, 11, 1>> -> "2023-11-01"
      [] OTHER -> "NaT"

StrftimeYm(c) ==
    CASE c.ymd[1] = 2023 /\ c.ymd[2] = 10 -> "2023-10"
      [] c.ymd[1] = 2023 /\ c.ymd[2] = 11 -> "2023-11"
      [] OTHER -> "NaT"

YmdLess(a, b) ==
    \/ a[1] < b[1]
    \/ a[1] = b[1] /\ a[2] < b[2]
    \/ a[1] = b[1] /\ a[2] = b[2] /\ a[3] < b[3]

\* Order of the time_slot strings.
SlotOrd(s) == CASE s = "S1" -> 1 [] s = "S2" -> 2 [] OTHER -> 3

\* pd.to_numeric(errors='coerce'): what is not a number becomes NaN.
ToNumeric(c) == IF c.k = "num" THEN c ELSE Empty
FillNa0(c) == IF c.k = "nan" THEN Num(0) ELSE c

(***************************************************************************)
(* Frames of activity data.                                                *)
(***************************************************************************)
Row(p, dt, sl, dep, wd, g) ==
    [player_id |-> p, date |-> dt, time_slot |-> sl,
     deposits |-> dep, withdrawals |-> wd, games_played |-> g]

Frame(cols, rows) == [columns |-> cols, rows |-> rows]

required_columns ==
    <<"player_id", "date", "time_slot", "deposits", "withdrawals", "games_played">>
numeric_columns == <<"deposits", "withdrawals", "games_played">>
valid_slots == {"S1", "S2"}

\* str.lower().str.strip() on the column labels of the uploads.
LowerStrip(c) ==
    CASE c = "Player_ID" -> "player_id"
      [] c = " Date" -> "date"
      [] c = "TIME_SLOT" -> "time_slot"
      [] c = "Deposits " -> "deposits"
      [] c = "Withdrawals" -> "withdrawals"
      [] c = "Games_Played" -> "games_played"
      [] OTHER -> c

NumCell(row, col) ==
    CASE col = "deposits" -> row.deposits
      [] col = "withdrawals" -> row.withdrawals
      [] col = "games_played" -> row.games_played

SetNumCell(row, col, c) ==
    CASE col = "deposits" -> [row EXCEPT !.deposits = c]
      [] col = "withdrawals" -> [row EXCEPT !.withdrawals = c]
      [] col = "games_played" -> [row EXCEPT !.games_played = c]

\* DataFrame.drop_duplicates(): the first of equal rows is kept.
drop_duplicates(rows) == Unique(rows)

\* The order of sort_values(['player_id', 'date', 'time_slot']): a null
\* player_id sorts last (na_position='last').
RowBefore(a, b) ==
    LET pa == a.player_id
        pb == b.player_id
    IN  \/ pa # 0 /\ pb = 0
        \/ pa # 0 /\ pb # 0 /\ pa < pb
        \/ pa = pb /\ YmdLess(a.date.ymd, b.date.ymd)
        \/ pa = pb /\ a.date.ymd = b.date.ymd
             /\ SlotOrd(a.time_slot) < SlotOrd(b.time_slot)

(***************************************************************************)
(* data_processor.py: DataProcessor.preprocess_data and load_data.         *)
(* A call returns [ok, error, df]: ok = FALSE models the raised exception. *)
(***************************************************************************)
Raise(msg) == [ok |-> FALSE, error |-> msg, df |-> Frame({}, <<>>)]
Return(df) == [ok |-> TRUE, error |-> "", df |-> df]

\* data[col] = pd.to_numeric(data[col], errors='coerce'), then fillna(0),
\* for each numeric column; data['date'] = pd.to_datetime(data['date']).
CoerceRow(row) ==
    [row EXCEPT !.date = ToDatetime(@),
                !.deposits = FillNa0(ToNumeric(@)),
                !.withdrawals = FillNa0(ToNumeric(@)),
                !.games_played = FillNa0(ToNumeric(@))]

\* AnyNegative looking at the deposits column only.
AnyNegativeDeposit(rows) == \E i \in 1..Len(rows) : rows[i].deposits.v < 0

\* (data[col] < 0).any() for one of the numeric columns.
AnyNegative(rows) ==
    \E i \in 1..Len(rows) : \E c \in Range(numeric_columns) :
        NumCell(rows[i], c).v < 0

\* The end of preprocess_data, from the check for negative values on.
CleanRows(columns, coerced) ==
    IF AnyNegative(coerced) THEN Raise("Negative values found")
    ELSE Return(Frame(columns, StableSort(drop_duplicates(coerced), RowBefore)))

preprocess_data(df) ==
    LET columns == {LowerStrip(c) : c \in df.columns}
        missing_columns == Range(required_columns) \ columns
        NotValidSlot(row) == row.time_slot \notin valid_slots
        invalid_slots == SelectSeq(df.rows, NotValidSlot)
    IN  IF missing_columns # {} THEN Raise("Missing required columns")
        ELSE IF \E i \in 1..Len(df.rows) : ~CanParse(df.rows[i].date)
        THEN Raise("Invalid date format. Please use YYYY-MM-DD format.")
        ELSE IF Len(invalid_slots) > 0 THEN Raise("Invalid time_slot values")
        ELSE CleanRows(columns, [i \in 1..Len(df.rows) |-> CoerceRow(df.rows[i])])

\* The uploader hands over csv and Excel files only; reading one yields its frame.
load_data(uploaded_file) ==
    LET r == preprocess_data(uploaded_file)
    IN  IF r.ok THEN r ELSE [r EXCEPT !.error = "Error loading data"]

(***************************************************************************)
(* utils.py: validate_data.                                                *)
(***************************************************************************)
Err(msg, arg) == [msg |-> msg, arg |-> arg]

\* The two checks of one numeric column, after pd.to_numeric(errors='coerce').
NumericErrors(df, col) ==
    IF col \notin df.columns THEN <<>>
    ELSE LET numeric_data == [i \in 1..Len(df.rows) |-> ToNumeric(NumCell(df.rows[i], col))]
         IN  (IF \E i \in 1..Len(df.rows) : numeric_data[i].k = "nan"
              THEN <<Err("Non-numeric values found in", <<col>>)>> ELSE <<>>)
             \o
             (IF \E i \in 1..Len(df.rows) : numeric_data[i].k = "num" /\ numeric_data[i].v < 0
              THEN <<Err("Negative values found in", <<col>>)>> ELSE <<>>)

\* RowChecks stopping at the first check that fails.
RowChecksUntilFailure(df) ==
    LET n == Len(df.rows)
        InvalidSlot(s) == s \notin valid_slots
        invalid_slots == Unique(SelectSeq([i \in 1..n |-> df.rows[i].time_slot], InvalidSlot))
        numeric == NumericErrors(df, "deposits") \o NumericErrors(df, "withdrawals")
                   \o NumericErrors(df, "games_played")
    IN  IF "player_id" \in df.columns /\ \E i \in 1..n : df.rows[i].player_id = 0
        THEN <<Err("Player ID contains null values", <<>>)>>
        ELSE IF "date" \in df.columns /\ \E i \in 1..n : ~CanParse(df.rows[i].date)
        THEN <<Err("Invalid date format detected", <<>>)>>
        ELSE IF "time_slot" \in df.columns /\ Len(invalid_slots) > 0
        THEN <<Err("Invalid time_slot values found", invalid_slots)>>
        ELSE SubSeq(numeric, 1, Smallest(1, Len(numeric)))

\* The checks that follow the empty-dataset return.
RowChecks(df) ==
    LET n == Len(df.rows)
        InvalidSlot(s) == s \notin valid_slots
        invalid_slots == Unique(SelectSeq([i \in 1..n |-> df.rows[i].time_slot], InvalidSlot))
    IN  (IF "player_id" \in df.columns /\ \E i \in 1..n : df.rows[i].player_id = 0
         THEN <<Err("Player ID contains null values", <<>>)>> ELSE <<>>)
        \o
        (IF "date" \in df.columns /\ \E i \in 1..n : ~CanParse(df.rows[i].date)
         THEN <<Err("Invalid date format detected", <<>>)>> ELSE <<>>)
        \o
        (IF "time_slot" \in df.columns /\ Len(invalid_slots) > 0
         THEN <<Err("Invalid time_slot values found", invalid_slots)>> ELSE <<>>)
        \o NumericErrors(df, "deposits")
        \o NumericErrors(df, "withdrawals")
        \o NumericErrors(df, "games_played")

\* validate_data with the empty-dataset check ahead of the column check.
validate_data_empty_first(df) ==
    IF Len(df.rows) = 0
    THEN [is_valid |-> FALSE, errors |-> <<Err("Dataset is empty", <<>>)>>]
    ELSE LET Missing(c) == c \notin df.columns
             missing_columns == SelectSeq(required_columns, Missing)
             errors == (IF missing_columns # <<>>
                        THEN <<Err("Missing required columns", missing_columns)>>
                        ELSE <<>>) \o RowChecks(df)
         IN  [is_valid |-> Len(errors) = 0, errors |-> errors]

validate_data(df) ==
    LET Missing(c) == c \notin df.columns
        missing_columns == SelectSeq(required_columns, Missing)
        errors0 == IF missing_columns # <<>>
                   THEN <<Err("Missing required columns", missing_columns)>>
                   ELSE <<>>
    IN  IF Len(df.rows) = 0
        THEN [is_valid |-> FALSE, errors |-> Append(errors0, Err("Dataset is empty", <<>>))]
        ELSE LET errors == errors0 \o RowChecks(df)
             IN  [is_valid |-> Len(errors) = 0, errors |-> errors]

(***************************************************************************)
(* loyalty_calculator.py: LoyaltyCalculator.                               *)
(***************************************************************************)
weights ==
    [deposit_amount |-> Frac(1, 100), withdrawal_amount |-> Frac(1, 200),
     deposit_frequency |-> Frac(1, 1000), games_played |-> Frac(1, 5)]

Max(a, b) == IF a >= b THEN a ELSE b

Column(rows, col) == [i \in 1..Len(rows) |-> NumCell(rows[i], col).v]

\* (player_data[col] > 0).sum()
CountPositive(rows, col) == Cardinality({i \in 1..Len(rows) : NumCell(rows[i], col).v > 0})

\* frequency_diff without the floor at zero.
frequency_diff_signed(deposit_count, withdrawal_count) == deposit_count - withdrawal_count

\* frequency_diff counting the deposits above the first.
frequency_diff_after_first(deposit_count, withdrawal_count) ==
    Max(deposit_count - withdrawal_count - 1, 0)

\* max(deposit_count - withdrawal_count, 0)
frequency_diff(deposit_count, withdrawal_count) == Max(deposit_count - withdrawal_count, 0)

calculate_player_loyalty_points(player_data) ==
    LET total_deposits == SumInt(Column(player_data, "deposits"))
        total_withdrawals == SumInt(Column(player_data, "withdrawals"))
        total_games == SumInt(Column(player_data, "games_played"))
        deposit_count == CountPositive(player_data, "deposits")
        withdrawal_count == CountPositive(player_data, "withdrawals")
        deposit_points == RMul(R(total_deposits), weights.deposit_amount)
        withdrawal_points == RMul(R(total_withdrawals), weights.withdrawal_amount)
        frequency_points ==
            RMul(R(frequency_diff(deposit_count, withdrawal_count)), weights.deposit_frequency)
        games_points == RMul(R(total_games), weights.games_played)
        total_points ==
            RAdd(RAdd(RAdd(deposit_points, withdrawal_points), frequency_points), games_points)
    IN  [total_loyalty_points |-> total_points,
         deposit_points |-> deposit_points,
         withdrawal_points |-> withdrawal_points,
         frequency_points |-> frequency_points,
         games_points |-> games_points,
         total_deposits |-> total_deposits,
         total_withdrawals |-> total_withdrawals,
         total_games_played |-> total_games,
         deposit_transactions |-> deposit_count,
         withdrawal_transactions |-> withdrawal_count]

\* The weights as the float64 values of their literals.
weights64 ==
    [deposit_amount |-> FromDecimal(1, 100), withdrawal_amount |-> FromDecimal(5, 1000),
     deposit_frequency |-> FromDecimal(1, 1000), games_played |-> FromDecimal(2, 10)]

\* The points of a breakdown as float64 computes them from its integer totals
\* and counts: each product rounded, then the three additions from the left,
\* each rounded.
float64_points(b) ==
    LET deposit_points == FMul(FromInt(b.total_deposits), weights64.deposit_amount)
        withdrawal_points == FMul(FromInt(b.total_withdrawals), weights64.withdrawal_amount)
        frequency_points ==
            FMul(FromInt(frequency_diff(b.deposit_transactions, b.withdrawal_transactions)),
                 weights64.deposit_frequency)
        games_points == FMul(FromInt(b.total_games_played), weights64.games_played)
    IN  [total_loyalty_points |->
             FAdd(FAdd(FAdd(deposit_points, withdrawal_points), frequency_points), games_points),
         deposit_points |-> deposit_points,
         withdrawal_points |-> withdrawal_points,
         frequency_points |-> frequency_points,
         games_points |-> games_points]

\* PlayerRows without the mask: every row of the frame.
PlayerRowsUnmasked(rows, player_id) == rows

\* data[data['player_id'] == player_id]: a null id equals nothing, itself included.
PlayerRows(rows, player_id) ==
    LET Mine(row) == player_id # 0 /\ row.player_id = player_id
    IN  SelectSeq(rows, Mine)

\* data['player_id'].unique()
PlayerIds(rows) == Unique([i \in 1..Len(rows) |-> rows[i].player_id])

\* The results list of the loop over the players, before it is made a frame.
ResultsOf(rows, ids) ==
    [i \in 1..Len(ids) |->
        [player_id |-> ids[i]] @@ calculate_player_loyalty_points(PlayerRows(rows, ids[i]))]

PlayerResults(rows) == ResultsOf(rows, PlayerIds(rows))

\* Descending order of total_loyalty_points.
MorePoints(a, b) == RLess(b.total_loyalty_points, a.total_loyalty_points)

RECURSIVE Perms(_)
Perms(s) ==
    IF Len(s) <= 1 THEN {s}
    ELSE UNION {{<<s[i]>> \o p :
                    p \in Perms(SubSeq(s, 1, i - 1) \o SubSeq(s, i + 1, Len(s)))} :
                i \in 1..Len(s)}

\* sort_values('total_loyalty_points', ascending=False) with the default
\* kind='quicksort', which is not stable: rows of equal points may come out in
\* any order.  The set of the frames the sort may return.
RECURSIVE TieOrders(_)
TieOrders(sorted) ==
    IF sorted = <<>> THEN {<<>>}
    ELSE LET k == Cardinality({i \in 1..Len(sorted) :
                    sorted[i].total_loyalty_points = sorted[1].total_loyalty_points})
         IN  {p \o q : p \in Perms(SubSeq(sorted, 1, k)),
                       q \in TieOrders(SubSeq(sorted, k + 1, Len(sorted)))}

sort_values_points(results) == TieOrders(StableSort(results, MorePoints))

\* calculate_monthly_loyalty_points: the frames a call may return; none when
\* the call raises (no player: the empty frame has no column to sort by).
SortedFrames(results) == IF results = <<>> THEN {} ELSE sort_values_points(results)

calculate_monthly_loyalty_points(df) == SortedFrames(PlayerResults(df.rows))

\* AfterScoring for a run that sorts the caller's frame in place, largest
\* deposits first, and drops the rows without a deposit.
AfterScoringInPlace(df) ==
    LET Deposited(row) == row.deposits.v > 0
        MoreDeposited(a, b) == a.deposits.v > b.deposits.v
    IN  Frame(df.columns, StableSort(SelectSeq(df.rows, Deposited), MoreDeposited))

\* The input frame after a scoring call: data[mask] and unique() make copies and
\* nothing is assigned to the frame, so it is as it was.
AfterScoring(df) == df

\* The results list of calculate_slot_loyalty_points: player_id, date and
\* time_slot ahead of the breakdown.
SlotResultsOf(rows, ids, target_date, slot) ==
    [i \in 1..Len(ids) |->
        [player_id |-> ids[i], date |-> target_date, time_slot |-> slot]
        @@ calculate_player_loyalty_points(PlayerRows(rows, ids[i]))]

\* calculate_slot_loyalty_points filtering by the date alone.
calculate_date_loyalty_points(df, target_date, slot) ==
    LET OnDate(row) == StrftimeYmd(row.date) = target_date
        slot_data == SelectSeq(df.rows, OnDate)
    IN  IF slot_data = <<>> THEN <<>>
        ELSE SlotResultsOf(slot_data, PlayerIds(slot_data), target_date, slot)

\* calculate_slot_loyalty_points: the rows whose date, formatted '%Y-%m-%d', is
\* target_date and whose time_slot is slot; pd.DataFrame() (<<>>) when none is.
calculate_slot_loyalty_points(df, target_date, slot) ==
    LET InSlot(row) == StrftimeYmd(row.date) = target_date /\ row.time_slot = slot
        slot_data == SelectSeq(df.rows, InSlot)
    IN  IF slot_data = <<>> THEN <<>>
        ELSE SlotResultsOf(slot_data, PlayerIds(slot_data), target_date, slot)

\* f"{config['date']}_{config['slot']}"
slot_key(config) == config.date \o "_" \o config.slot

\* calculate_specific_slots_loyalty_points: the dict from slot_key to the frame of
\* the slot; a later config overwrites an earlier one of the same key.
calculate_specific_slots_loyalty_points(df, slot_configs) ==
    LET n == Len(slot_configs)
        Last(k) == CHOOSE i \in 1..n :
                      /\ slot_key(slot_configs[i]) = k
                      /\ \A j \in (i + 1)..n : slot_key(slot_configs[j]) # k
    IN  [k \in {slot_key(slot_configs[i]) : i \in 1..n} |->
            calculate_slot_loyalty_points(df, slot_configs[Last(k)].date,
                                          slot_configs[Last(k)].slot)]

\* The value of the tie-breaker column.
TieValue(b, tie_breaker) ==
    CASE tie_breaker = "total_games_played" -> b.total_games_played
      [] tie_breaker = "total_deposits" -> b.total_deposits
      [] tie_breaker = "total_withdrawals" -> b.total_withdrawals

\* WithRank as a competition ranking: rows of equal points share a rank.
WithSharedRank(frame) ==
    [i \in 1..Len(frame) |->
        [rank |-> 1 + Cardinality({j \in 1..Len(frame) :
                        RLess(frame[i].total_loyalty_points, frame[j].total_loyalty_points)})]
        @@ frame[i]]

\* range(1, len + 1) assigned to the 'rank' column.
WithRank(frame) == [i \in 1..Len(frame) |-> [rank |-> i] @@ frame[i]]

\* The ranking sorted by the points alone.
rank_players_by_points_only(loyalty_data, tie_breaker) ==
    WithRank(StableSort(loyalty_data, MorePoints))

\* sort_values on two columns is a lexsort, which is stable.
rank_players_by_loyalty_points(loyalty_data, tie_breaker) ==
    LET Before(a, b) ==
            \/ MorePoints(a, b)
            \/ /\ a.total_loyalty_points = b.total_loyalty_points
               /\ TieValue(a, tie_breaker) > TieValue(b, tie_breaker)
    IN  WithRank(StableSort(loyalty_data, Before))

(***************************************************************************)
(* app.py: the top-50 frame of the Rankings and Bonus Allocation pages and *)
(* the three allocation methods.                                           *)
(***************************************************************************)
TopN == 50

\* DataFrame.nlargest(n, 'total_loyalty_points') with keep='first': descending,
\* rows of equal points in their order of appearance, the first n of them.
nlargest(n, frame) ==
    LET sorted == StableSort(frame, MorePoints)
    IN  SubSeq(sorted, 1, IF Len(sorted) < n THEN Len(sorted) ELSE n)

\* results_df.nlargest(50, ...).reset_index(drop=True) with the 'rank' column.
top_50_players(results_df) == WithRank(nlargest(TopN, results_df))

Methods == {"Proportional to Loyalty Points", "Equal Distribution", "Tiered Distribution"}

Points(frame) == [i \in 1..Len(frame) |-> frame[i].total_loyalty_points]

\* total_loyalty_points / total_points * bonus_pool
ProportionalBonus(entry, total_points, bonus_pool) ==
    RMul(RDiv(entry.total_loyalty_points, total_points), R(bonus_pool))

\* bonus_pool / 50
EqualBonus(bonus_pool) == RDiv(R(bonus_pool), R(50))

\* TieredBonus with the slices read as end-exclusive, like list slices:
\* rows 0..8, 10..28 and 30..48.
TieredBonusEndExclusive(rank, bonus_pool) ==
    LET top_10_bonus == RDiv(RMul(R(bonus_pool), Frac(1, 2)), R(10))
        next_20_bonus == RDiv(RMul(R(bonus_pool), Frac(35, 100)), R(20))
        last_20_bonus == RDiv(RMul(R(bonus_pool), Frac(15, 100)), R(20))
    IN  IF rank - 1 < 9 THEN top_10_bonus
        ELSE IF rank - 1 >= 10 /\ rank - 1 < 29 THEN next_20_bonus
        ELSE IF rank - 1 >= 30 /\ rank - 1 < 49 THEN last_20_bonus
        ELSE R(0)

\* 0.0, overwritten by .loc[:9], .loc[10:29] and .loc[30:49]: label slices of the
\* index 0..N-1, which take the rows that exist.
TieredBonus(rank, bonus_pool) ==
    LET top_10_bonus == RDiv(RMul(R(bonus_pool), Frac(1, 2)), R(10))
        next_20_bonus == RDiv(RMul(R(bonus_pool), Frac(35, 100)), R(20))
        last_20_bonus == RDiv(RMul(R(bonus_pool), Frac(15, 100)), R(20))
    IN  IF rank - 1 <= 9 THEN top_10_bonus
        ELSE IF rank - 1 >= 10 /\ rank - 1 <= 29 THEN next_20_bonus
        ELSE IF rank - 1 >= 30 /\ rank - 1 <= 49 THEN last_20_bonus
        ELSE R(0)

bonus_amount(entry, total_points, allocation_method, bonus_pool) ==
    CASE allocation_method = "Proportional to Loyalty Points" ->
             ProportionalBonus(entry, total_points, bonus_pool)
      [] allocation_method = "Equal Distribution" -> EqualBonus(bonus_pool)
      [] allocation_method = "Tiered Distribution" -> TieredBonus(entry.rank, bonus_pool)

\* pd.cut(rank, bins=[0, 10, 30, 50], labels=[...])
Tier(rank) ==
    IF rank <= 10 THEN "Top 10"
    ELSE IF rank <= 30 THEN "Rank 11-30"
    ELSE IF rank <= 50 THEN "Rank 31-50"
    ELSE "NaN"

\* The frame the 'Calculate Bonus Allocation' button leaves in the session.
WithBonus(top, total_points, allocation_method, bonus_pool) ==
    [i \in 1..Len(top) |->
        [bonus_amount |-> bonus_amount(top[i], total_points, allocation_method, bonus_pool),
         tier |-> Tier(top[i].rank)] @@ top[i]]

allocate_bonus(top, allocation_method, bonus_pool) ==
    WithBonus(top, SumRat(Points(top)), allocation_method, bonus_pool)

(***************************************************************************)
(* utils.py: generate_loyalty_summary_report.  The report is None for the  *)
(* empty dict.  std_loyalty_points, a square root, has no place among the  *)
(* rationals and is left out.                                              *)
(***************************************************************************)
\* idxmax taking the last row that holds the maximum.
idxmax_last(values) ==
    CHOOSE i \in 1..Len(values) :
        /\ \A j \in 1..Len(values) : ~RLess(values[i], values[j])
        /\ \A j \in (i + 1)..Len(values) : RLess(values[j], values[i])

\* Series.idxmax(): the first row that holds the maximum.
idxmax(values) ==
    CHOOSE i \in 1..Len(values) :
        /\ \A j \in 1..Len(values) : ~RLess(values[i], values[j])
        /\ \A j \in 1..(i - 1) : RLess(values[j], values[i])

idxmin(values) ==
    CHOOSE i \in 1..Len(values) :
        /\ \A j \in 1..Len(values) : ~RLess(values[j], values[i])
        /\ \A j \in 1..(i - 1) : RLess(values[i], values[j])

\* Series.median(): the middle value, or the mean of the two middle values.
median(values) ==
    LET sorted == SortSeq(values, RLess)
        n == Len(values)
    IN  IF n % 2 = 1 THEN sorted[(n + 1) \div 2]
        ELSE RDiv(RAdd(sorted[n \div 2], sorted[n \div 2 + 1]), R(2))

IntColumn(frame, col) ==
    [i \in 1..Len(frame) |->
        CASE col = "total_deposits" -> frame[i].total_deposits
          [] col = "total_withdrawals" -> frame[i].total_withdrawals
          [] col = "total_games_played" -> frame[i].total_games_played]

ReportOf(loyalty_data, points, total_deposits, total_games) ==
    [total_players |-> Len(loyalty_data),
     total_loyalty_points |-> SumRat(points),
     average_loyalty_points |-> RDiv(SumRat(points), R(Len(loyalty_data))),
     median_loyalty_points |-> median(points),
     max_loyalty_points |-> points[idxmax(points)],
     min_loyalty_points |-> points[idxmin(points)],
     top_player |-> loyalty_data[idxmax(points)].player_id,
     total_deposits |-> total_deposits,
     total_withdrawals |-> SumInt(IntColumn(loyalty_data, "total_withdrawals")),
     total_games_played |-> total_games,
     average_deposits_per_player |-> Frac(total_deposits, Len(loyalty_data)),
     average_games_per_player |-> Frac(total_games, Len(loyalty_data))]

generate_loyalty_summary_report(loyalty_data) ==
    IF loyalty_data = <<>> THEN None
    ELSE Some(ReportOf(loyalty_data, Points(loyalty_data),
                       SumInt(IntColumn(loyalty_data, "total_deposits")),
                       SumInt(IntColumn(loyalty_data, "total_games_played"))))

(***************************************************************************)
(* The inputs of the session: the files a user uploads, the bonus pools    *)
(* entered.                                                                *)
(***************************************************************************)
Oct02 == RawDate("2023-10-02")
Oct16 == RawDate("2023-10-16")
Nov01 == RawDate("2023-11-01")
AllColumns == Range(required_columns)

\* One row per player: players 1 and 2 have equal points (0.2) and different
\* games played, the others have distinct points.
GenRow(i) ==
    IF i = 1 THEN Row(1, Oct02, "S1", Num(10), Num(20), Num(0))
    ELSE IF i = 2 THEN Row(2, Oct02, "S2", Num(0), Num(0), Num(1))
    ELSE Row(i, Oct02, "S1", Num(100 * i), Num(200), Num(5 * (i % 3)))

GenFile(n) == Frame(AllColumns, [i \in 1..n |-> GenRow(n + 1 - i)])

\* Decorated column labels, a repeated row, a non-numeric and an empty cell; the
\* documented sample row (1000, 500, 5); two months.
SampleFile ==
    Frame({"Player_ID", " Date", "TIME_SLOT", "Deposits ", "Withdrawals", "Games_Played"},
          <<Row(3, Oct16, "S2", Num(0), Str, Num(1)),
            Row(2, Oct02, "S1", Num(10), Num(20), Num(0)),
            Row(1, Oct02, "S1", Num(1000), Num(500), Num(5)),
            Row(2, Oct02, "S1", Num(10), Num(20), Num(0)),
            Row(2, Nov01, "S2", Empty, Num(0), Num(3))>>)

\* Every player without activity: all points are zero.
IdleFile ==
    Frame(AllColumns,
          <<Row(1, Oct02, "S1", Num(0), Num(0), Num(0)),
            Row(2, Oct02, "S1", Num(0), Num(0), Num(0))>>)

GoodRow == Row(1, Oct02, "S1", Num(1000), Num(500), Num(5))

Files ==
    <<SampleFile,
      IdleFile,
      GenFile(MaxPlayers),
      Frame(AllColumns \ {"games_played"}, <<GoodRow>>),
      Frame(AllColumns, <<[GoodRow EXCEPT !.date = RawDate("yesterday")]>>),
      Frame(AllColumns, <<[GoodRow EXCEPT !.time_slot = "S3"]>>),
      Frame(AllColumns, <<[GoodRow EXCEPT !.deposits = Num(-1000)]>>),
      Frame(AllColumns, <<GoodRow, [GoodRow EXCEPT !.player_id = 0]>>),
      Frame(AllColumns, <<>>)>>

Pools == {0, 50000}

\* What load_data returns for each file, and validate_data for what it returned.
Loaded == [i \in 1..Len(Files) |-> load_data(Files[i])]
Validated == [i \in 1..Len(Files) |-> validate_data(Loaded[i].df)]

(***************************************************************************)
(* app.py: the session and its pages.  Every interaction reruns the script *)
(* of the selected page: one action per page run.                          *)
(***************************************************************************)
Blank ==
    [warning |-> FALSE, error |-> "", validation |-> <<>>, top |-> <<>>,
     pressed |-> FALSE, pool |-> 0, method |-> ""]

SessionInit ==
    /\ data = None
    /\ loyalty_results = None
    /\ bonus_allocation = None

NoCall == [fn |-> "none"]

Init ==
    /\ SessionInit
    /\ page = "start"
    /\ shown = Blank
    /\ call = NoCall
    /\ ret = <<>>

\* data_upload_page with no file in the uploader.
DataUploadPageIdle ==
    /\ page' = "Data Upload"
    /\ shown' = Blank
    /\ UNCHANGED <<data, loyalty_results, bonus_allocation>>

\* DataUploadPage storing whatever was loaded, valid or not.
DataUploadPageUnchecked(i) ==
    LET loaded == Loaded[i]
        validation_results == Validated[i]
    IN  /\ page' = "Data Upload"
        /\ IF ~loaded.ok
           THEN /\ shown' = [Blank EXCEPT !.error = loaded.error]
                /\ data' = data
           ELSE IF validation_results.is_valid
           THEN /\ shown' = Blank
                /\ data' = Some(loaded.df)
           ELSE /\ shown' = [Blank EXCEPT !.error = "Data validation failed!",
                                          !.validation = validation_results.errors]
                /\ data' = Some(loaded.df)
        /\ UNCHANGED <<loyalty_results, bonus_allocation>>

\* data_upload_page with file i in the uploader.
DataUploadPage(i) ==
    LET loaded == Loaded[i]
        validation_results == Validated[i]
    IN  /\ page' = "Data Upload"
        /\ IF ~loaded.ok
           THEN /\ shown' = [Blank EXCEPT !.error = loaded.error]
                /\ data' = data
           ELSE IF validation_results.is_valid
           THEN /\ shown' = Blank
                /\ data' = Some(loaded.df)
           ELSE /\ shown' = [Blank EXCEPT !.error = "Data validation failed!",
                                          !.validation = validation_results.errors]
                /\ data' = data
        /\ UNCHANGED <<loyalty_results, bonus_allocation>>

\* sorted(data['date'].dt.strftime('%Y-%m').unique()): the options of the month box.
MonthOptions(df) == {StrftimeYm(df.rows[i].date) : i \in 1..Len(df.rows)}

\* data[data['date'].dt.strftime('%Y-%m') == selected_month]
MonthData(df, selected_month) ==
    LET InMonth(row) == StrftimeYm(row.date) = selected_month
    IN  Frame(df.columns, SelectSeq(df.rows, InMonth))

\* loyalty_calculations_page without data: the warning and the early return.
LoyaltyCalculationsPageNoData ==
    /\ IsNone(data)
    /\ page' = "Loyalty Calculations"
    /\ shown' = [Blank EXCEPT !.warning = TRUE]
    /\ UNCHANGED <<data, loyalty_results, bonus_allocation>>

\* loyalty_calculations_page, button not pressed.
LoyaltyCalculationsPageView ==
    /\ ~IsNone(data)
    /\ page' = "Loyalty Calculations"
    /\ shown' = Blank
    /\ UNCHANGED <<data, loyalty_results, bonus_allocation>>

\* CalculateLoyaltyPoints discarding the bonus allocation of the earlier results.
CalculateLoyaltyPointsAfresh(selected_month) ==
    /\ ~IsNone(data)
    /\ selected_month \in MonthOptions(Get(data))
    /\ \E results \in calculate_monthly_loyalty_points(MonthData(Get(data), selected_month)) :
          loyalty_results' = Some(results)
    /\ page' = "Loyalty Calculations"
    /\ shown' = [Blank EXCEPT !.pressed = TRUE]
    /\ bonus_allocation' = None
    /\ UNCHANGED data

\* loyalty_calculations_page, 'Calculate Loyalty Points' pressed.
CalculateLoyaltyPoints(selected_month) ==
    /\ ~IsNone(data)
    /\ selected_month \in MonthOptions(Get(data))
    /\ \E results \in calculate_monthly_loyalty_points(MonthData(Get(data), selected_month)) :
          loyalty_results' = Some(results)
    /\ page' = "Loyalty Calculations"
    /\ shown' = [Blank EXCEPT !.pressed = TRUE]
    /\ UNCHANGED <<data, bonus_allocation>>

\* PageNoResults going on after the warning: the Bonus Allocation page stores an
\* allocation of no player.
PageNoResultsGoingOn(name) ==
    /\ IsNone(loyalty_results)
    /\ page' = name
    /\ shown' = [Blank EXCEPT !.warning = TRUE]
    /\ bonus_allocation' = IF name = "Bonus Allocation" THEN Some(<<>>) ELSE bonus_allocation
    /\ UNCHANGED <<data, loyalty_results>>

\* rankings_analysis_page, bonus_allocation_page, reports_page without results.
PageNoResults(name) ==
    /\ IsNone(loyalty_results)
    /\ page' = name
    /\ shown' = [Blank EXCEPT !.warning = TRUE]
    /\ UNCHANGED <<data, loyalty_results, bonus_allocation>>

RankingsAnalysisPage ==
    /\ ~IsNone(loyalty_results)
    /\ page' = "Rankings & Analysis"
    /\ shown' = [Blank EXCEPT !.top = top_50_players(Get(loyalty_results))]
    /\ UNCHANGED <<data, loyalty_results, bonus_allocation>>

\* bonus_allocation_page, button not pressed.
BonusAllocationPageView ==
    /\ ~IsNone(loyalty_results)
    /\ page' = "Bonus Allocation"
    /\ shown' = [Blank EXCEPT !.top = top_50_players(Get(loyalty_results))]
    /\ UNCHANGED <<data, loyalty_results, bonus_allocation>>

\* bonus_allocation_page, 'Calculate Bonus Allocation' pressed.
CalculateBonusAllocation(bonus_pool, allocation_method) ==
    /\ ~IsNone(loyalty_results)
    /\ LET top == top_50_players(Get(loyalty_results))
       IN  /\ bonus_allocation' = Some(allocate_bonus(top, allocation_method, bonus_pool))
           /\ shown' = [Blank EXCEPT !.top = top, !.pressed = TRUE,
                                     !.pool = bonus_pool, !.method = allocation_method]
    /\ page' = "Bonus Allocation"
    /\ UNCHANGED <<data, loyalty_results>>

ReportsPage ==
    /\ ~IsNone(loyalty_results)
    /\ page' = "Reports"
    /\ shown' = Blank
    /\ UNCHANGED <<data, loyalty_results, bonus_allocation>>

PageRun ==
    \/ DataUploadPageIdle
    \/ \E i \in 1..Len(Files) : DataUploadPage(i)
    \/ LoyaltyCalculationsPageNoData
    \/ LoyaltyCalculationsPageView
    \/ \E m \in {"2023-10", "2023-11"} : CalculateLoyaltyPoints(m)
    \/ \E name \in {"Rankings & Analysis", "Bonus Allocation", "Reports"} : PageNoResults(name)
    \/ RankingsAnalysisPage
    \/ BonusAllocationPageView
    \/ \E p \in Pools : \E m \in Methods : CalculateBonusAllocation(p, m)
    \/ ReportsPage

Next == PageRun /\ UNCHANGED <<call, ret>>

Spec == Init /\ [][Next]_vars

(***************************************************************************)
(* The library functions called on their own, on inputs drawn from bounded *)
(* sets.  Seqs(S, n): the sequences over S of length at most n.            *)
(***************************************************************************)
Seqs(S, n) == UNION {[1..k -> S] : k \in 0..n}

FunctionInit(inputs) ==
    /\ SessionInit
    /\ page = "start"
    /\ shown = Blank
    /\ call \in inputs
    /\ ret = <<>>

(***************************************************************************)
(* Scoring: a raw frame is preprocessed, then a subset of its rows is      *)
(* scored, as a whole or for one of its players.                           *)
(***************************************************************************)
ScoreRows ==
    {Row(p, Oct02, "S1", Num(d), Num(w), Num(g)) :
        p \in {1, 2}, d \in {0, 1000}, w \in {0, 500}, g \in {0, 5}}
    \cup {Row(1, Oct16, "S2", Num(-1000), Num(0), Num(0)),
          Row(1, Oct16, "S2", Num(250), Num(-500), Num(5)),
          Row(2, Oct16, "S2", Str, Empty, Num(5))}

ScoreInputs == {[fn |-> "input", df |-> Frame(AllColumns, rows)] : rows \in Seqs(ScoreRows, MaxRows)}

\* The rows of df at the places idx, in order: a subset of the records.
Subset(df, idx) ==
    LET In(i) == i \in idx
    IN  Frame(df.columns, At(df.rows, SelectSeq(Indices(df.rows), In)))

Preprocess ==
    /\ call.fn = "input"
    /\ call' = [fn |-> "preprocess_data", df |-> call.df]
    /\ ret' = preprocess_data(call.df)
    /\ UNCHANGED session

ScorePlayer ==
    /\ call.fn = "preprocess_data"
    /\ ret.ok
    /\ \E idx \in SUBSET (1..Len(ret.df.rows)) : \E i \in idx :
          LET player_data == PlayerRows(Subset(ret.df, idx).rows, ret.df.rows[i].player_id)
          IN  /\ call' = [fn |-> "calculate_player_loyalty_points", player_data |-> player_data]
              /\ ret' = calculate_player_loyalty_points(player_data)
    /\ UNCHANGED session

\* A call of calculate_monthly_loyalty_points on the frame 'given'.  The call
\* records the frame as the run left it (df) and whether the run raised.
MonthlyCall(given, outcomes) ==
    /\ call' = [fn |-> "calculate_monthly_loyalty_points", given |-> given,
                df |-> AfterScoring(given), raised |-> outcomes = {}, run |-> 1,
                first |-> <<>>]
    /\ IF outcomes = {} THEN ret' = Raise("KeyError: 'total_loyalty_points'")
                        ELSE ret' \in outcomes

ScoreMonthly ==
    /\ call.fn = "preprocess_data"
    /\ ret.ok
    /\ \E idx \in SUBSET (1..Len(ret.df.rows)) :
          MonthlyCall(Subset(ret.df, idx), calculate_monthly_loyalty_points(Subset(ret.df, idx)))
    /\ UNCHANGED session

\* A second run on the frame as the first run left it.  The sort is not stable,
\* but it is a function of its input: on the same rows it orders ties as it did.
MonthlyAgain(outcomes) ==
    /\ call' = [call EXCEPT !.df = AfterScoring(call.df), !.run = 2, !.first = ret]
    /\ IF ret \in outcomes THEN ret' = ret ELSE ret' \in outcomes

ScoreMonthlyAgain ==
    /\ call.fn = "calculate_monthly_loyalty_points"
    /\ ~call.raised
    /\ call.run = 1
    /\ calculate_monthly_loyalty_points(call.df) # {}
    /\ MonthlyAgain(calculate_monthly_loyalty_points(call.df))
    /\ UNCHANGED session

ScoreNext == Preprocess \/ ScorePlayer \/ ScoreMonthly \/ ScoreMonthlyAgain

SpecScore == FunctionInit(ScoreInputs) /\ [][ScoreNext]_vars

(***************************************************************************)
(* Slots: a raw frame with records in three (date, slot) pairs is          *)
(* preprocessed, then scored as a whole (or a subset), for one slot, or    *)
(* for a list of slots; a scored frame is summarised.                      *)
(***************************************************************************)
SlotActivity == {<<1, 0, 0>>, <<6, 5, 1>>, <<0, 5, 0>>}

SlotRows ==
    {Row(p, ds[1], ds[2], Num(a[1]), Num(a[2]), Num(a[3])) :
        p \in {1, 2}, ds \in {<<Oct02, "S1">>, <<Oct02, "S2">>, <<Oct16, "S1">>},
        a \in SlotActivity}

SlotInputs == {[fn |-> "input", df |-> Frame(AllColumns, rows)] : rows \in Seqs(SlotRows, MaxSlotRows)}

Config(date, slot) == [date |-> date, slot |-> slot]

\* The slots asked for: the three of the records and one without records.
SlotConfigs ==
    {Config("2023-10-02", "S1"), Config("2023-10-02", "S2"), Config("2023-10-16", "S1"),
     Config("2023-10-16", "S2")}

\* The (date, slot) pairs of the rows, each once, in order of appearance.
SlotsOf(rows) == Unique([i \in 1..Len(rows) |-> Config(StrftimeYmd(rows[i].date), rows[i].time_slot)])

SlotConfigLists(rows) ==
    {<<>>,
     <<Config("2023-10-02", "S1")>>,
     <<Config("2023-10-16", "S2")>>,
     <<Config("2023-10-02", "S1"), Config("2023-10-02", "S2")>>,
     <<Config("2023-10-16", "S1"), Config("2023-10-02", "S1"), Config("2023-10-16", "S1")>>,
     <<Config("2023-10-02", "S2"), Config("2023-10-16", "S2"), Config("2023-10-16", "S1")>>,
     SlotsOf(rows)}

ScoreSlot ==
    /\ call.fn = "preprocess_data"
    /\ ret.ok
    /\ \E config \in SlotConfigs :
          /\ call' = [fn |-> "calculate_slot_loyalty_points", df |-> ret.df,
                      target_date |-> config.date, slot |-> config.slot, raised |-> FALSE]
          /\ ret' = calculate_slot_loyalty_points(ret.df, config.date, config.slot)
    /\ UNCHANGED session

ScoreSpecificSlots ==
    /\ call.fn = "preprocess_data"
    /\ ret.ok
    /\ \E slot_configs \in SlotConfigLists(ret.df.rows) :
          /\ call' = [fn |-> "calculate_specific_slots_loyalty_points", df |-> ret.df,
                      slot_configs |-> slot_configs, raised |-> FALSE]
          /\ ret' = calculate_specific_slots_loyalty_points(ret.df, slot_configs)
    /\ UNCHANGED session

\* The report of a frame that a scoring call returned.
SummaryReport ==
    /\ call.fn \in {"calculate_monthly_loyalty_points", "calculate_slot_loyalty_points"}
    /\ ~call.raised
    /\ call' = [fn |-> "generate_loyalty_summary_report", loyalty_data |-> ret,
                raised |-> FALSE]
    /\ ret' = generate_loyalty_summary_report(ret)
    /\ UNCHANGED session

SlotNext == Preprocess \/ ScoreMonthly \/ ScoreSlot \/ ScoreSpecificSlots \/ SummaryReport

SpecSlots == FunctionInit(SlotInputs) /\ [][SlotNext]_vars

(***************************************************************************)
(* Ranking: a scored frame, in any order, is ranked with a tie-breaker.    *)
(***************************************************************************)
\* The activity of a player in the ranked frames: three players of 0.2 points
\* (with different games, deposits and withdrawals) and the sample player.
RankedActivity ==
    {<<Num(10), Num(20), Num(0)>>, <<Num(0), Num(0), Num(1)>>,
     <<Num(0), Num(40), Num(0)>>, <<Num(1000), Num(500), Num(5)>>}

\* The frame scored for players 1..Len(acts), player i with the activity acts[i].
ScoredFrame(acts) ==
    [i \in 1..Len(acts) |->
        [player_id |-> i] @@
        calculate_player_loyalty_points(<<Row(i, Oct02, "S1", acts[i][1], acts[i][2], acts[i][3])>>)]

TieBreakers == {"total_games_played", "total_deposits", "total_withdrawals"}

RankInputs ==
    {[fn |-> "input", loyalty_data |-> ScoredFrame(acts), tie_breaker |-> tb] :
        acts \in Seqs(RankedActivity, MaxRanked), tb \in TieBreakers}

RankPlayers ==
    /\ call.fn = "input"
    /\ call' = [call EXCEPT !.fn = "rank_players_by_loyalty_points"]
    /\ ret' = rank_players_by_loyalty_points(call.loyalty_data, call.tie_breaker)
    /\ UNCHANGED session

RankNext == RankPlayers

SpecRank == FunctionInit(RankInputs) /\ [][RankNext]_vars

(***************************************************************************)
(* Validation: validate_data on a batch as it comes, not preprocessed.     *)
(***************************************************************************)
ValidateRows ==
    {GoodRow,
     Row(2, Nov01, "S2", Num(0), Num(0), Num(0)),
     [GoodRow EXCEPT !.player_id = 0],
     [GoodRow EXCEPT !.date = RawDate("yesterday")],
     [GoodRow EXCEPT !.time_slot = "S3"],
     [GoodRow EXCEPT !.time_slot = "s1", !.games_played = Num(-5)],
     [GoodRow EXCEPT !.deposits = Str, !.withdrawals = Num(-500)],
     [GoodRow EXCEPT !.deposits = Num(-1000), !.games_played = Empty]}

ValidateColumns ==
    {AllColumns,
     AllColumns \ {"games_played"},
     AllColumns \ {"player_id", "date", "time_slot"},
     (AllColumns \ {"deposits"}) \cup {"Deposits "},
     {}}

ValidateInputs ==
    {[fn |-> "input", df |-> Frame(cols, rows)] :
        cols \in ValidateColumns, rows \in Seqs(ValidateRows, MaxRows)}

ValidateData ==
    /\ call.fn = "input"
    /\ call' = [call EXCEPT !.fn = "validate_data"]
    /\ ret' = validate_data(call.df)
    /\ UNCHANGED session

ValidateNext == ValidateData

SpecValidate == FunctionInit(ValidateInputs) /\ [][ValidateNext]_vars

(***************************************************************************)
(* The properties.                                                         *)
(***************************************************************************)
\* The run that just ended pressed 'Calculate Bonus Allocation'.
Allocated == page = "Bonus Allocation" /\ shown.pressed
Allocation == Get(bonus_allocation)
Amounts == [i \in 1..Len(Allocation) |-> Allocation[i].bonus_amount]

\* C1: whatever the size of the top set, the pool and the method, the bonus
\* amounts of the allocation just calculated add up to the pool (the sum as the
\* page shows it: Series.sum()).
SumOfBonusIsPool == Allocated => REq(SumRat(Amounts), R(shown.pool))

\* C2: Proportional, every top player at zero points: the allocation falls back
\* to Equal Distribution, every member receiving pool / N.
ZeroPointsFallBackToEqual ==
    (/\ Allocated
     /\ shown.method = "Proportional to Loyalty Points"
     /\ \A i \in 1..Len(Allocation) : Allocation[i].total_loyalty_points = R(0))
    => \A i \in 1..Len(Allocation) :
          REq(Allocation[i].bonus_amount, Frac(shown.pool, Len(Allocation)))

\* C3: Equal Distribution gives every member pool / N, N the number of members
\* of the top set.
EqualShareIsPoolOverN ==
    (Allocated /\ shown.method = "Equal Distribution")
    => \A i \in 1..Len(Allocation) :
          REq(Allocation[i].bonus_amount, Frac(shown.pool, Len(Allocation)))

\* The amount of the band that rank r lies in: 10 / 30 / 50 as absolute ranks.
BandAmount(r, pool) ==
    IF r \in 1..10 THEN Frac(pool, 20)
    ELSE IF r \in 11..30 THEN Frac(7 * pool, 400)
    ELSE Frac(3 * pool, 400)

Smaller(a, b) == IF a < b THEN a ELSE b

\* C4: Tiered Distribution on a top set of any size N <= 50: the member at rank r
\* receives pool*0.5/10 for r in 1..10, pool*0.35/20 for r in 11..30 and
\* pool*0.15/20 for r in 31..50, so the bands the set does not reach add nothing
\* to the total.
TieredBandsAreAbsolute ==
    (Allocated /\ shown.method = "Tiered Distribution")
    => LET n == Len(Allocation)
       IN  /\ n <= 50
           /\ \A i \in 1..n :
                 /\ Allocation[i].rank = i
                 /\ REq(Allocation[i].bonus_amount, BandAmount(i, shown.pool))
           /\ REq(SumRat(Amounts),
                  Frac(shown.pool * (20 * Smaller(n, 10)
                                     + 7 * (Smaller(n, 30) - Smaller(n, 10))
                                     + 3 * (n - Smaller(n, 30))), 400))

\* C4 happens: a Tiered allocation of a positive pool over a full top set.
TieredAllBandsReached ==
    /\ Allocated
    /\ shown.method = "Tiered Distribution"
    /\ shown.pool > 0
    /\ Len(Allocation) = 50

\* The records a call of calculate_player_loyalty_points was given.
PlayerCall == call.fn = "calculate_player_loyalty_points"
Deposits(rows) == {i \in 1..Len(rows) : rows[i].deposits.v > 0}
Withdrawals(rows) == {i \in 1..Len(rows) : rows[i].withdrawals.v > 0}

\* Thousandths of a point earned by the amounts of the records, record by record.
RECURSIVE AmountMillis(_)
AmountMillis(rows) ==
    IF rows = <<>> THEN 0
    ELSE 10 * Head(rows).deposits.v + 5 * Head(rows).withdrawals.v
         + 200 * Head(rows).games_played.v + AmountMillis(Tail(rows))

\* C5: total_loyalty_points = 0.01*sum(deposits) + 0.005*sum(withdrawals)
\* + 0.001*max(D - W, 0) + 0.2*sum(games_played), D and W counting the records
\* with a positive deposit / withdrawal; frequency_points is 0 when W >= D; the
\* record (1000, 500, 5) alone yields 13.5.
LoyaltyPointsFormula ==
    PlayerCall =>
        LET rows == call.player_data
            D == Cardinality(Deposits(rows))
            W == Cardinality(Withdrawals(rows))
        IN  /\ ret.total_loyalty_points
                 = Frac(AmountMillis(rows) + (IF D > W THEN D - W ELSE 0), 1000)
            /\ ret.deposit_transactions = D /\ ret.withdrawal_transactions = W
            /\ W >= D => ret.frequency_points = R(0)
            /\ (/\ Len(rows) = 1
                /\ rows[1].deposits.v = 1000
                /\ rows[1].withdrawals.v = 500
                /\ rows[1].games_played.v = 5) => ret.total_loyalty_points = Frac(27, 2)

\* C5 happens: two records, both with a deposit, one with a withdrawal.
TwoDepositsOneWithdrawal ==
    /\ PlayerCall
    /\ Cardinality(Deposits(call.player_data)) = 2
    /\ Cardinality(Withdrawals(call.player_data)) = 1
    /\ ret.frequency_points = Frac(1, 1000)

NonNegative(r) == r.d > 0 /\ r.n >= 0

NonNegativePoints(b) ==
    /\ NonNegative(b.total_loyalty_points)
    /\ NonNegative(b.deposit_points)
    /\ NonNegative(b.withdrawal_points)
    /\ NonNegative(b.frequency_points)
    /\ NonNegative(b.games_points)

\* C6: whatever subset of a dataset that preprocess_data accepted is scored, the
\* total and the four components of every player are >= 0.
PointsAreNonNegative ==
    /\ PlayerCall => NonNegativePoints(ret)
    /\ (call.fn = "calculate_monthly_loyalty_points" /\ ~call.raised)
          => \A i \in 1..Len(ret) : NonNegativePoints(ret[i])

\* C6 happens: a scored subset with a player of more withdrawals than deposits
\* and a player that was uploaded with a non-numeric cell.
ScoredWithdrawingPlayer ==
    /\ call.fn = "calculate_monthly_loyalty_points"
    /\ ~call.raised
    /\ Len(ret) = 2
    /\ \E i \in 1..2 : ret[i].withdrawal_transactions > ret[i].deposit_transactions
    /\ \E i \in 1..2 : ret[i].total_deposits = 0 /\ ret[i].total_games_played > 0

RankCall == call.fn = "rank_players_by_loyalty_points"
Unranked(e) == [f \in DOMAIN e \ {"rank"} |-> e[f]]

\* C7: the ranks are exactly 1..N along the output, one player per rank, ties
\* included, and the output holds exactly the input players.
RanksAreOneToN ==
    RankCall =>
        /\ Len(ret) = Len(call.loyalty_data)
        /\ \A i \in 1..Len(ret) : ret[i].rank = i
        /\ \A i, j \in 1..Len(ret) : i # j => ret[i].player_id # ret[j].player_id
        /\ {Unranked(ret[i]) : i \in 1..Len(ret)} = Range(call.loyalty_data)

\* C7 happens: three players ranked, two of them equal in points and tie-breaker.
RankedFullTie ==
    /\ RankCall
    /\ Len(ret) = 3
    /\ \E i \in 1..2 :
          /\ ret[i].total_loyalty_points = ret[i + 1].total_loyalty_points
          /\ TieValue(ret[i], call.tie_breaker) = TieValue(ret[i + 1], call.tie_breaker)

\* a is ahead of b: more points, or equal points and a larger tie-breaker value.
Ahead(a, b, tie_breaker) ==
    \/ RLess(b.total_loyalty_points, a.total_loyalty_points)
    \/ /\ a.total_loyalty_points = b.total_loyalty_points
       /\ TieValue(a, tie_breaker) > TieValue(b, tie_breaker)

\* C8: a player with more points, or with equal points and a larger tie-breaker
\* value, has the smaller rank.
AheadRanksFirst ==
    RankCall =>
        \A i, j \in 1..Len(ret) :
            Ahead(ret[i], ret[j], call.tie_breaker) => ret[i].rank < ret[j].rank

\* C8 happens: two players of equal points, the one with the larger tie-breaker
\* value later in the input, first in the ranking.
TieBrokenAgainstInputOrder ==
    /\ RankCall
    /\ \E i, j \in 1..Len(ret) :
          /\ ret[i].total_loyalty_points = ret[j].total_loyalty_points
          /\ TieValue(ret[i], call.tie_breaker) > TieValue(ret[j], call.tie_breaker)
          /\ ret[i].player_id > ret[j].player_id
          /\ ret[i].rank < ret[j].rank

\* C9: the top-50 frame of the Rankings and Bonus Allocation pages is the first
\* 50 entries of rank_players_by_loyalty_points with the default tie-breaker,
\* and all of them when fewer than 50 players were scored.
TopIsRankingPrefix ==
    (page \in {"Rankings & Analysis", "Bonus Allocation"} /\ ~shown.warning)
    => LET ranked == rank_players_by_loyalty_points(Get(loyalty_results), "total_games_played")
       IN  shown.top = SubSeq(ranked, 1, Smaller(Len(ranked), 50))

EmptyBatchValidated == call.fn = "validate_data" /\ Len(call.df.rows) = 0
DatasetIsEmpty == Err("Dataset is empty", <<>>)

\* C10 as stated: a batch of zero records, whatever its columns, gets
\* is_valid = FALSE and exactly one error, 'Dataset is empty'.
EmptyBatchOneError ==
    EmptyBatchValidated => ret = [is_valid |-> FALSE, errors |-> <<DatasetIsEmpty>>]

\* C10 as amended: a batch of zero records gets is_valid = FALSE and the errors
\* end with 'Dataset is empty'; that is the only error when no required column
\* is missing, and it follows the one error naming the missing columns otherwise.
EmptyBatchErrors ==
    EmptyBatchValidated =>
        LET missing == Range(required_columns) \ call.df.columns
            n == Len(ret.errors)
        IN  /\ ~ret.is_valid
            /\ n = (IF missing = {} THEN 1 ELSE 2)
            /\ ret.errors[n] = DatasetIsEmpty
            /\ n = 2 => /\ ret.errors[1].msg = "Missing required columns"
                        /\ Range(ret.errors[1].arg) = missing
                        /\ Len(ret.errors[1].arg) = Cardinality(missing)

\* C10 happens: an empty batch that lacks required columns.
EmptyBatchMissingColumns ==
    /\ EmptyBatchValidated
    /\ Range(required_columns) \ call.df.columns # {}
    /\ Len(ret.errors) = 2

BatchValidated == call.fn = "validate_data" /\ Len(call.df.rows) > 0
HasColumn(col) == col \in call.df.columns
Cells(col) ==
    CASE col = "player_id" -> {call.df.rows[i].player_id : i \in 1..Len(call.df.rows)}
      [] col = "date" -> {call.df.rows[i].date : i \in 1..Len(call.df.rows)}
      [] col = "time_slot" -> {call.df.rows[i].time_slot : i \in 1..Len(call.df.rows)}
      [] col = "deposits" -> {call.df.rows[i].deposits : i \in 1..Len(call.df.rows)}
      [] col = "withdrawals" -> {call.df.rows[i].withdrawals : i \in 1..Len(call.df.rows)}
      [] col = "games_played" -> {call.df.rows[i].games_played : i \in 1..Len(call.df.rows)}

\* The checks of validate_data in their order, and the batch violating one.
ValidationChecks ==
    <<<<"Missing required columns", "">>,
      <<"Player ID contains null values", "player_id">>,
      <<"Invalid date format detected", "date">>,
      <<"Invalid time_slot values found", "time_slot">>,
      <<"Non-numeric values found in", "deposits">>,
      <<"Negative values found in", "deposits">>,
      <<"Non-numeric values found in", "withdrawals">>,
      <<"Negative values found in", "withdrawals">>,
      <<"Non-numeric values found in", "games_played">>,
      <<"Negative values found in", "games_played">>>>

CheckViolated(c) ==
    CASE c[1] = "Missing required columns" ->
            \E col \in {"player_id", "date", "time_slot", "deposits", "withdrawals",
                        "games_played"} : ~HasColumn(col)
      [] c[1] = "Player ID contains null values" -> HasColumn(c[2]) /\ 0 \in Cells(c[2])
      [] c[1] = "Invalid date format detected" ->
            HasColumn(c[2]) /\ \E d \in Cells(c[2]) : ~d.parsed /\ ParseYmd(d.s) = <<0, 0, 0>>
      [] c[1] = "Invalid time_slot values found" ->
            HasColumn(c[2]) /\ Cells(c[2]) \ {"S1", "S2"} # {}
      [] c[1] = "Non-numeric values found in" ->
            HasColumn(c[2]) /\ \E x \in Cells(c[2]) : x.k # "num"
      [] c[1] = "Negative values found in" ->
            HasColumn(c[2]) /\ \E x \in Cells(c[2]) : x.k = "num" /\ x.v < 0

\* The check an error line reports.
ReportedCheck(e) ==
    <<e.msg, CASE e.msg \in {"Non-numeric values found in", "Negative values found in"} -> e.arg[1]
               [] e.msg = "Player ID contains null values" -> "player_id"
               [] e.msg = "Invalid date format detected" -> "date"
               [] e.msg = "Invalid time_slot values found" -> "time_slot"
               [] OTHER -> "">>

\* C11: on a non-empty batch the errors of validate_data are one line per
\* violated check, all of them whatever failed before, in the order of the checks
\* (missing columns, null player_id, unparsable date, the unrecognized time_slot
\* values together, then per numeric column non-numeric and negative values as
\* separate lines), and is_valid is TRUE exactly when no check is violated.
EveryViolatedCheckReported ==
    BatchValidated =>
        /\ [i \in 1..Len(ret.errors) |-> ReportedCheck(ret.errors[i])]
              = SelectSeq(ValidationChecks, CheckViolated)
        /\ ret.is_valid <=> \A i \in 1..Len(ValidationChecks) : ~CheckViolated(ValidationChecks[i])
        /\ \A i \in 1..Len(ret.errors) :
              /\ ret.errors[i].msg = "Invalid time_slot values found"
                    => /\ Range(ret.errors[i].arg) = Cells("time_slot") \ {"S1", "S2"}
                       /\ Len(ret.errors[i].arg) = Cardinality(Range(ret.errors[i].arg))
              /\ ret.errors[i].msg = "Missing required columns"
                    => Range(ret.errors[i].arg)
                         = {"player_id", "date", "time_slot", "deposits", "withdrawals",
                            "games_played"} \ call.df.columns

\* C11 happens: a batch that violates an early check and later ones, all reported.
SeveralChecksViolated ==
    /\ BatchValidated
    /\ Len(ret.errors) >= 4
    /\ ret.errors[1].msg = "Missing required columns"
    /\ \E i \in 1..Len(ret.errors) : ret.errors[i].msg = "Invalid time_slot values found"
    /\ \E i \in 1..Len(ret.errors) : ret.errors[i].msg = "Negative values found in"

MonthlyReturned == call.fn = "calculate_monthly_loyalty_points" /\ ~call.raised

\* The total of a numeric column over the records of player p.
RECURSIVE PlayerTotal(_, _, _)
PlayerTotal(rows, p, col) ==
    IF rows = <<>> THEN 0
    ELSE (IF Head(rows).player_id = p THEN NumCell(Head(rows), col).v ELSE 0)
         + PlayerTotal(Tail(rows), p, col)

PlayerCount(rows, p, col) ==
    Cardinality({k \in 1..Len(rows) : rows[k].player_id = p /\ NumCell(rows[k], col).v > 0})

\* The breakdown b is the one of player p's records among rows.
BreakdownOfPlayer(b, rows, p) ==
    /\ b.player_id = p
    /\ b.total_deposits = PlayerTotal(rows, p, "deposits")
    /\ b.total_withdrawals = PlayerTotal(rows, p, "withdrawals")
    /\ b.total_games_played = PlayerTotal(rows, p, "games_played")
    /\ b.deposit_transactions = PlayerCount(rows, p, "deposits")
    /\ b.withdrawal_transactions = PlayerCount(rows, p, "withdrawals")
    /\ b.total_loyalty_points
          = Frac(10 * b.total_deposits + 5 * b.total_withdrawals + 200 * b.total_games_played
                 + (IF b.deposit_transactions > b.withdrawal_transactions
                    THEN b.deposit_transactions - b.withdrawal_transactions ELSE 0), 1000)

\* C12: on a non-empty subset of validated, normalised records
\* calculate_monthly_loyalty_points returns one breakdown per distinct player_id
\* of the subset, each computed from exactly that player's records of the subset,
\* and none for a player without a record in it.
OneBreakdownPerPlayer ==
    MonthlyReturned =>
        LET rows == call.given.rows
            ids == {rows[k].player_id : k \in 1..Len(rows)}
        IN  /\ Len(ret) = Cardinality(ids)
            /\ {ret[i].player_id : i \in 1..Len(ret)} = ids
            /\ \A i \in 1..Len(ret) : BreakdownOfPlayer(ret[i], rows, ret[i].player_id)

\* C12 happens: a subset with a record of each of two players, a breakdown each.
TwoPlayersScored ==
    /\ MonthlyReturned
    /\ Len(call.given.rows) = 2
    /\ call.given.rows[1].player_id # call.given.rows[2].player_id
    /\ Len(ret) = 2
    /\ ret[1].total_deposits # ret[2].total_deposits

\* No record of rows lies in the slot of config.
NoRecordIn(rows, config) ==
    \A k \in 1..Len(rows) :
        ~(StrftimeYmd(rows[k].date) = config.date /\ rows[k].time_slot = config.slot)

\* C13: calculate_monthly_loyalty_points, calculate_slot_loyalty_points,
\* calculate_specific_slots_loyalty_points and generate_loyalty_summary_report,
\* given no record, or records of which their own filter leaves none, return an
\* empty result and do not raise.
EmptyInEmptyOut ==
    /\ (call.fn = "calculate_monthly_loyalty_points" /\ Len(call.given.rows) = 0)
          => (~call.raised /\ Len(ret) = 0)
    /\ (/\ call.fn = "calculate_slot_loyalty_points"
        /\ NoRecordIn(call.df.rows, Config(call.target_date, call.slot)))
          => (~call.raised /\ Len(ret) = 0)
    /\ call.fn = "calculate_specific_slots_loyalty_points"
          => /\ ~call.raised
             /\ \A i \in 1..Len(call.slot_configs) :
                   NoRecordIn(call.df.rows, call.slot_configs[i])
                      => Len(ret[slot_key(call.slot_configs[i])]) = 0
    /\ (call.fn = "generate_loyalty_summary_report" /\ Len(call.loyalty_data) = 0)
          => (~call.raised /\ IsNone(ret))

SpecificSlotsCall == call.fn = "calculate_specific_slots_loyalty_points"

InSlotOf(row, config) == StrftimeYmd(row.date) = config.date /\ row.time_slot = config.slot

\* The total of a numeric column over the records of player p in the slot of config.
RECURSIVE SlotTotal(_, _, _, _)
SlotTotal(rows, p, config, col) ==
    IF rows = <<>> THEN 0
    ELSE (IF Head(rows).player_id = p /\ InSlotOf(Head(rows), config)
          THEN NumCell(Head(rows), col).v ELSE 0)
         + SlotTotal(Tail(rows), p, config, col)

SlotCount(rows, p, config, col) ==
    Cardinality({k \in 1..Len(rows) :
        rows[k].player_id = p /\ InSlotOf(rows[k], config) /\ NumCell(rows[k], col).v > 0})

\* The frame entry holds the breakdowns of exactly the records of rows in the
\* slot of config.
EntryOfSlot(entry, rows, config) ==
    /\ {entry[i].player_id : i \in 1..Len(entry)}
          = {rows[k].player_id : k \in {k \in 1..Len(rows) : InSlotOf(rows[k], config)}}
    /\ \A i, j \in 1..Len(entry) : i # j => entry[i].player_id # entry[j].player_id
    /\ \A i \in 1..Len(entry) :
          LET b == entry[i]
          IN  /\ b.date = config.date /\ b.time_slot = config.slot
              /\ b.total_deposits = SlotTotal(rows, b.player_id, config, "deposits")
              /\ b.total_withdrawals = SlotTotal(rows, b.player_id, config, "withdrawals")
              /\ b.total_games_played = SlotTotal(rows, b.player_id, config, "games_played")
              /\ b.deposit_transactions = SlotCount(rows, b.player_id, config, "deposits")
              /\ b.withdrawal_transactions = SlotCount(rows, b.player_id, config, "withdrawals")
              /\ b.total_loyalty_points
                    = Frac(10 * b.total_deposits + 5 * b.total_withdrawals
                           + 200 * b.total_games_played
                           + (IF b.deposit_transactions > b.withdrawal_transactions
                              THEN b.deposit_transactions - b.withdrawal_transactions
                              ELSE 0), 1000)

\* C14: for every (date, slot) pair of slot_configs (the date written
\* 'YYYY-MM-DD', as the function asks) the result of
\* calculate_specific_slots_loyalty_points holds, under the key 'date_slot', the
\* breakdowns of exactly the records of that date and that slot, records of
\* another date or slot adding nothing to it, and the result has one entry
\* per distinct pair.
EntryPerSlot ==
    SpecificSlotsCall =>
        LET pairs == {call.slot_configs[i] : i \in 1..Len(call.slot_configs)}
        IN  /\ DOMAIN ret = {c.date \o "_" \o c.slot : c \in pairs}
            /\ Cardinality(DOMAIN ret) = Cardinality(pairs)
            /\ \A c \in pairs : EntryOfSlot(ret[c.date \o "_" \o c.slot], call.df.rows, c)

\* C14 happens: two slots of one date are asked for, a player has a record in
\* each, and the two entries differ.
TwoSlotsOfOneDate ==
    /\ SpecificSlotsCall
    /\ call.slot_configs = <<Config("2023-10-02", "S1"), Config("2023-10-02", "S2")>>
    /\ Len(ret["2023-10-02_S1"]) = 1
    /\ Len(ret["2023-10-02_S2"]) = 1
    /\ ret["2023-10-02_S1"][1].player_id = ret["2023-10-02_S2"][1].player_id
    /\ ret["2023-10-02_S1"][1].total_deposits # ret["2023-10-02_S2"][1].total_deposits

ReportCall == call.fn = "generate_loyalty_summary_report" /\ Len(call.loyalty_data) > 0

\* C15: on a non-empty scored set the report's top_player is a player whose
\* total_loyalty_points is the maximum of the set, the first such player in the
\* order of the input when several share it; max_loyalty_points is that
\* player's score and total_players the size of the set.
TopPlayerIsFirstMaximum ==
    ReportCall =>
        LET scored == call.loyalty_data
            report == Get(ret)
        IN  /\ report.total_players = Len(scored)
            /\ \E i \in 1..Len(scored) :
                  /\ scored[i].player_id = report.top_player
                  /\ report.max_loyalty_points = scored[i].total_loyalty_points
                  /\ \A j \in 1..Len(scored) :
                        ~RLess(scored[i].total_loyalty_points, scored[j].total_loyalty_points)
                  /\ \A j \in 1..(i - 1) :
                        RLess(scored[j].total_loyalty_points, scored[i].total_loyalty_points)

\* C15 happens: two players share the maximum, and the first of them in the
\* input, not the one of the smaller id, is the top player.
TopPlayerAmongTied ==
    /\ ReportCall
    /\ Len(call.loyalty_data) = 2
    /\ call.loyalty_data[1].total_loyalty_points = call.loyalty_data[2].total_loyalty_points
    /\ call.loyalty_data[1].player_id > call.loyalty_data[2].player_id
    /\ Get(ret).top_player = call.loyalty_data[1].player_id

\* The frame is one that an upload loaded without error and validate_data passed.
ValidDataset(df) ==
    \E i \in 1..Len(Files) : Loaded[i].ok /\ Validated[i].is_valid /\ df = Loaded[i].df

\* C16: the session's dataset is replaced only by a run of the upload page whose
\* file was preprocessed without error and passed validate_data; a run whose
\* file fails either leaves the dataset as it was; and loyalty_results is
\* calculated only while the stored dataset is one that passed validation.
OnlyValidUploadsStored ==
    [][/\ data' # data
          => /\ page' = "Data Upload"
             /\ shown'.error = ""
             /\ ~IsNone(data')
             /\ ValidDataset(Get(data'))
       /\ (page' = "Data Upload" /\ shown'.error # "") => data' = data
       /\ loyalty_results' # loyalty_results
          => (~IsNone(data) /\ ValidDataset(Get(data)) /\ data' = data)]_vars

\* C16 happens: an upload has just failed validation while an earlier, valid
\* dataset is stored, and loyalty points have been calculated.
FailedUploadOverStoredData ==
    /\ page = "Data Upload"
    /\ shown.error = "Data validation failed!"
    /\ ~IsNone(data)
    /\ ~IsNone(loyalty_results)

WarningOnly == [Blank EXCEPT !.warning = TRUE]

\* C18: in every reachable session state loyalty_results is set only if a
\* validated dataset is set and bonus_allocation only if loyalty_results is set;
\* the Loyalty Calculations page run without a dataset, and the Rankings, Bonus
\* Allocation and Reports pages run without loyalty_results, show the warning
\* and compute nothing.
ResultsNeedTheirSource ==
    /\ ~IsNone(loyalty_results) => (~IsNone(data) /\ ValidDataset(Get(data)))
    /\ ~IsNone(bonus_allocation) => ~IsNone(loyalty_results)
    /\ (page = "Loyalty Calculations" /\ IsNone(data))
          => (shown = WarningOnly /\ IsNone(loyalty_results))
    /\ (page \in {"Rankings & Analysis", "Bonus Allocation", "Reports"} /\ IsNone(loyalty_results))
          => (shown = WarningOnly /\ IsNone(bonus_allocation))
    /\ (page = "Loyalty Calculations" /\ ~IsNone(data)) => ~shown.warning
    /\ (page \in {"Rankings & Analysis", "Bonus Allocation", "Reports"} /\ ~IsNone(loyalty_results))
          => ~shown.warning

\* C18 happens: the Bonus Allocation page was opened with a dataset stored and
\* no loyalty points calculated.
BonusPageBeforeResults ==
    /\ page = "Bonus Allocation"
    /\ ~IsNone(data)
    /\ IsNone(loyalty_results)
    /\ shown.warning

\* C19: a successful upload changes the dataset and leaves loyalty_results and
\* bonus_allocation as they were; 'Calculate Loyalty Points' changes
\* loyalty_results and leaves the dataset and bonus_allocation as they were;
\* bonus_allocation is changed by 'Calculate Bonus Allocation' alone.
EachResultHasItsAction ==
    [][/\ data' # data
          => /\ page' = "Data Upload"
             /\ loyalty_results' = loyalty_results
             /\ bonus_allocation' = bonus_allocation
       /\ loyalty_results' # loyalty_results
          => /\ page' = "Loyalty Calculations" /\ shown'.pressed
             /\ data' = data
             /\ bonus_allocation' = bonus_allocation
       /\ bonus_allocation' # bonus_allocation
          => /\ page' = "Bonus Allocation" /\ shown'.pressed
             /\ data' = data
             /\ loyalty_results' = loyalty_results]_vars

\* The players of a scored frame, and those of a dataset.
ScoredPlayers(frame) == {frame[i].player_id : i \in 1..Len(frame)}
DatasetPlayers(df) == {df.rows[i].player_id : i \in 1..Len(df.rows)}

\* C19 happens: after a new upload and a recalculation, the stored
\* bonus_allocation is that of earlier results and holds players that the stored
\* dataset does not.
StaleBonusAllocation ==
    /\ ~IsNone(data)
    /\ ~IsNone(loyalty_results)
    /\ ~IsNone(bonus_allocation)
    /\ page = "Loyalty Calculations"
    /\ shown.pressed
    /\ ScoredPlayers(Get(loyalty_results)) \subseteq DatasetPlayers(Get(data))
    /\ ~(ScoredPlayers(Get(bonus_allocation)) \subseteq DatasetPlayers(Get(data)))

SecondRun == MonthlyReturned /\ call.run = 2

EverySlotCall == SpecificSlotsCall /\ call.slot_configs = SlotsOf(call.df.rows)

\* The breakdown of player p over the whole set, as the loop of
\* calculate_monthly_loyalty_points computes it, and the breakdowns of p in the
\* slot frames of ret.
WholeOf(p) == calculate_player_loyalty_points(PlayerRows(call.df.rows, p))

RECURSIVE SlotPartsFrom(_, _)
SlotPartsFrom(p, configs) ==
    IF configs = <<>> THEN <<>>
    ELSE LET IsP(b) == b.player_id = p
         IN  SelectSeq(ret[slot_key(Head(configs))], IsP) \o SlotPartsFrom(p, Tail(configs))

SlotPartsOf(p) == SlotPartsFrom(p, call.slot_configs)

\* The sum of a points column over breakdowns: in exact arithmetic, and of the
\* float64 values without rounding the sum.
ExactSum(parts, col) == SumRat([i \in 1..Len(parts) |-> parts[i][col]])

RECURSIVE Sum64(_, _)
Sum64(parts, col) ==
    IF parts = <<>> THEN FromInt(0)
    ELSE DAdd(float64_points(Head(parts))[col], Sum64(Tail(parts), col))

\* x <= y * (1 + 2^-48), and the same both ways: equal within the rounding of
\* the few operations of a breakdown.
AtMostWithinRounding(x, y) == ~DLess(DAdd(y, Dyadic(y.m, y.e - 48)), x)

EqualWithinRounding(x, y) == AtMostWithinRounding(x, y) /\ AtMostWithinRounding(y, x)

AmountColumns == {"deposit_points", "withdrawal_points", "games_points"}

\* C20 as stated, of the float64 values the code returns: the whole is at most
\* the sum of the slots, the deposit, withdrawal and games points of the whole
\* are the sums of the slots', and the whole is below the sum only when its
\* frequency_points are.
SlotsAddUpExactly ==
    EverySlotCall =>
        \A p \in {call.df.rows[k].player_id : k \in 1..Len(call.df.rows)} :
            LET whole == float64_points(WholeOf(p))
                parts == SlotPartsOf(p)
            IN  /\ ~DLess(Sum64(parts, "total_loyalty_points"), whole.total_loyalty_points)
                /\ \A col \in AmountColumns : whole[col] = Sum64(parts, col)
                /\ DLess(whole.total_loyalty_points, Sum64(parts, "total_loyalty_points"))
                      => DLess(whole.frequency_points, Sum64(parts, "frequency_points"))

\* C20: for every player of a record set, in exact arithmetic the
\* total_loyalty_points over the whole set is at most the sum of the player's
\* totals over the (date, slot) pairs of the set, the deposit, withdrawal and
\* games points are additive across the slots, and the whole is below the sum
\* only when its frequency_points are; of the float64 values the code returns
\* the same holds within rounding (a relative 2^-48): the whole is at most the
\* sum, and each of the three amount components equals the sum of the slots'.
SlotsAddUpWithinRounding ==
    EverySlotCall =>
        \A p \in {call.df.rows[k].player_id : k \in 1..Len(call.df.rows)} :
            LET whole == WholeOf(p)
                whole64 == float64_points(WholeOf(p))
                parts == SlotPartsOf(p)
            IN  /\ ~RLess(ExactSum(parts, "total_loyalty_points"), whole.total_loyalty_points)
                /\ \A col \in AmountColumns : whole[col] = ExactSum(parts, col)
                /\ RLess(whole.total_loyalty_points, ExactSum(parts, "total_loyalty_points"))
                      => RLess(whole.frequency_points, ExactSum(parts, "frequency_points"))
                /\ AtMostWithinRounding(whole64.total_loyalty_points,
                                        Sum64(parts, "total_loyalty_points"))
                /\ AtMostWithinRounding(whole64.frequency_points,
                                        Sum64(parts, "frequency_points"))
                /\ \A col \in AmountColumns : EqualWithinRounding(whole64[col], Sum64(parts, col))

\* C20 happens: a player with a deposit in one slot and a withdrawal in another,
\* whose frequency_points over the whole set are below the sum of the slots'.
FloorMakesWholeSmaller ==
    /\ EverySlotCall
    /\ Len(call.slot_configs) = 2
    /\ \E p \in {call.df.rows[k].player_id : k \in 1..Len(call.df.rows)} :
          /\ Len(SlotPartsOf(p)) = 2
          /\ RLess(WholeOf(p).total_loyalty_points,
                   ExactSum(SlotPartsOf(p), "total_loyalty_points"))
          /\ DLess(float64_points(WholeOf(p)).total_loyalty_points,
                   Sum64(SlotPartsOf(p), "total_loyalty_points"))

====
